---- MODULE Spec2Model ----
(***************************************************************************)
(* A model of the RPC handler of web3-rpc-racer: RPCHandler                *)
(* (types/rpc-handler.ts, the later of the two revisions in that file) and *)
(* RPCService (the revision whose testRpcPerformance takes rpcTimeout).    *)
(*                                                                         *)
(* Strings that the code splits on "__" are modelled as the sequence of    *)
(* their "__"-separated parts: the URL "A" is <<"A">>, the latency key     *)
(* "1__A" is <<"1", "A">>.                                                 *)
(*                                                                         *)
(* The latency table is a JavaScript object: a sequence of (key, duration) *)
(* entries in insertion order with unique keys.                            *)
(*                                                                         *)
(* In Spec the client of the handler awaits each call before it issues the *)
(* next: one testRpcPerformance call or one proxied provider call is in    *)
(* flight at a time. ConcSpec, OverlapSpec and ReadSpec drop that         *)
(* discipline; EnsureSpec, PassSpec and LoadSpec are the handler reached   *)
(* through getFastestRpcProvider, with the proxy disabled, and with a      *)
(* stored table; HeldSpec has a caller that keeps a provider across later  *)
(* cycles and ConfigSpec a handler constructed with config.networkRpcs;    *)
(* FindSpec, LogSpec and VerifySpec apply one function to bounded inputs.  *)
(***************************************************************************)
EXTENDS Integers, Sequences, FiniteSets, TLC

\* ------------------------------------------------------------------ bounds
\* Durations measured by a probe are 1..MaxDur.
MaxDur == 2
\* cacheRefreshCycles is configured in 1..MaxCycles.
MaxCycles == 2
\* proxySettings.retryCount is configured in 0..MaxRetry.
MaxRetry == 2
\* The longest table findFastestRpc is tried on.
MaxEntries == 3

\* ------------------------------------------------- configuration and strings
\* config.networkId; `${networkId}` is its text.
NetworkId == "1"

\* networkRpcs[networkId]: the built-in endpoint list of the network.
ExtraRpcs == << <<"A">>, <<"B">> >>

\* rpc.startsWith(`${networkId}__`)
StartsWithNetworkId(rpc, networkId) == Len(rpc) >= 2 /\ rpc[1] = networkId

\* rpc.split("__")[1]; undefined when the string holds no "__".
SplitSecond(rpc) == IF Len(rpc) >= 2 THEN <<rpc[2]>> ELSE <<"undefined">>

\* `${networkId}__${rpcUrl}`
LatencyKey(networkId, rpcUrl) == <<networkId>> \o rpcUrl

\* ------------------------------------------------------- the latency table
KeysOf(lat) == [i \in 1..Len(lat) |-> lat[i].key]

HasKey(lat, k) == \E i \in 1..Len(lat) : lat[i].key = k

\* latencies[k] = d on a JavaScript object: an existing key keeps its place.
PutLatency(lat, k, d) ==
    IF HasKey(lat, k)
    THEN [i \in 1..Len(lat) |-> IF lat[i].key = k THEN [key |-> k, dur |-> d] ELSE lat[i]]
    ELSE Append(lat, [key |-> k, dur |-> d])

\* Array.prototype.indexOf / splice(index, 1) of runtimeRpcs.
IndexOf(list, x) ==
    IF \E i \in 1..Len(list) : list[i] = x
    THEN CHOOSE i \in 1..Len(list) : list[i] = x /\ \A j \in 1..(i - 1) : list[j] # x
    ELSE 0

RemoveAt(list, i) == [j \in 1..(Len(list) - 1) |-> IF j < i THEN list[j] ELSE list[j + 1]]

\* ------------------------------------------------------------ BlockValidator
HexDigits == {"0", "1", "2", "3", "4", "5", "6", "7", "8", "9",
              "a", "b", "c", "d", "e", "f", "A", "B", "C", "D", "E", "F"}

HexValue(c) ==
    CASE c = "0" -> 0 [] c = "1" -> 1 [] c = "2" -> 2 [] c = "3" -> 3 [] c = "4" -> 4
      [] c = "5" -> 5 [] c = "6" -> 6 [] c = "7" -> 7 [] c = "8" -> 8 [] c = "9" -> 9
      [] c \in {"a", "A"} -> 10 [] c \in {"b", "B"} -> 11 [] c \in {"c", "C"} -> 12
      [] c \in {"d", "D"} -> 13 [] c \in {"e", "E"} -> 14 [] c \in {"f", "F"} -> 15

\* The value of the longest prefix of hex digits of s read from position i
\* with accumulator acc.
RECURSIVE HexPrefix(_, _, _)
HexPrefix(s, i, acc) ==
    IF i > Len(s) \/ s[i] \notin HexDigits THEN acc
    ELSE HexPrefix(s, i + 1, acc * 16 + HexValue(s[i]))

\* parseInt(s, 16): an optional "0x" prefix, then the leading hex digits;
\* NaN (here -1, which like NaN is not > 0) when there is none.
ParseInt16(s) ==
    LET start == IF Len(s) >= 2 /\ s[1] = "0" /\ s[2] \in {"x", "X"} THEN 3 ELSE 1
    IN  IF start > Len(s) \/ s[start] \notin HexDigits THEN -1
        ELSE HexPrefix(s, start, 0)

\* hash.match(/[0-9|a-f|A-F|x]/gm)?.join("").length: the number of characters
\* of the hash that are in the class.
HashClassCount(hash) ==
    Cardinality({i \in 1..Len(hash) : hash[i] \in HexDigits \union {"x", "|"}})

\* _verifyBlock(data); data.missing names the properties the response lacks.
\* Destructuring an undefined result and calling match on an undefined hash
\* throw inside the try, which returns false; parseInt(undefined, 16) is NaN.
_verifyBlock(data) ==
    /\ "result" \notin data.missing
    /\ data.jsonrpc = "2.0"
    /\ data.id = 1
    /\ "number" \notin data.missing /\ ParseInt16(data.result.number) > 0
    /\ "timestamp" \notin data.missing /\ ParseInt16(data.result.timestamp) > 0
    /\ "hash" \notin data.missing /\ HashClassCount(data.result.hash) = 66

\* Two response bodies an endpoint can answer a probe with.
GoodHash == [i \in 1..66 |-> IF i = 1 THEN "0" ELSE IF i = 2 THEN "x" ELSE "a"]

GoodBlock ==
    [jsonrpc |-> "2.0", id |-> 1, missing |-> {},
     result |-> [number |-> <<"0", "x", "1", "0">>,
                 timestamp |-> <<"0", "x", "5", "f", "5">>,
                 hash |-> GoodHash]]

BadBlock == [GoodBlock EXCEPT !.jsonrpc = "1.0"]

Bodies == {"good", "bad"}

BodyOf(b) == IF b = "good" THEN GoodBlock ELSE BadBlock

\* --------------------------------------------------------------- RPCService
\* What the network does with one probe request: it answers with a body
\* after t ms (t below the timeout), it times out, or the transport fails.
NetOutcomes ==
    [how : {"response"}, body : Bodies, t : 1..MaxDur]
        \union {[how |-> "timeout", body |-> "bad", t |-> MaxDur + 1],
                [how |-> "error", body |-> "bad", t |-> 0]}

\* Mutant: the error of a failed post is not caught.
makeRpcRequest_NoCatch(rpcUrl, net) ==
    IF net.how = "response"
    THEN [status |-> "fulfilled", rpcUrl |-> rpcUrl, success |-> TRUE, duration |-> net.t]
    ELSE [status |-> "rejected", rpcUrl |-> rpcUrl, success |-> FALSE, duration |-> 0]

\* makeRpcRequest: how its promise settles and the PromiseResult it resolves
\* with; .catch turns every error of the post into a result.
makeRpcRequest(rpcUrl, net) ==
    IF net.how = "response"
    THEN [status |-> "fulfilled", rpcUrl |-> rpcUrl, success |-> TRUE, duration |-> net.t]
    ELSE [status |-> "fulfilled", rpcUrl |-> rpcUrl, success |-> FALSE,
          duration |-> IF net.how = "timeout" THEN net.t ELSE 0]

\* Mutant: the forEach records nothing, so that only the first request to
\* settle is recorded.
ForEachLatencies_None(lat, results, i, networkId) == lat

\* Mutant: the forEach stops at the first result that is not a success.
ForEachLatencies_StopAtFailure(lat, results, i, networkId) ==
    LET bad == {j \in i..Len(results) : ~results[j].success}
        ok  == {j \in i..Len(results) : \A k \in bad : j < k}
        F[n \in 0..Len(results)] ==
            IF n < i THEN lat
            ELSE IF n \in ok
                 THEN PutLatency(F[n - 1], LatencyKey(networkId, results[n].rpcUrl),
                                 results[n].duration)
                 ELSE F[n - 1]
    IN  F[Len(results)]

\* Mutant: the forEach deletes the entry of an endpoint that did not succeed.
RECURSIVE ForEachLatencies_DropFailed(_, _, _, _)
ForEachLatencies_DropFailed(lat, results, i, networkId) ==
    IF i > Len(results) THEN lat
    ELSE ForEachLatencies_DropFailed(
            IF results[i].status = "fulfilled" /\ results[i].success
            THEN PutLatency(lat, LatencyKey(networkId, results[i].rpcUrl), results[i].duration)
            ELSE SelectSeq(lat, LAMBDA e : e.key # LatencyKey(networkId, results[i].rpcUrl)),
            results, i + 1, networkId)

\* allResults.forEach(...): the table after results i..Len(results).
RECURSIVE ForEachLatencies(_, _, _, _)
ForEachLatencies(lat, results, i, networkId) ==
    IF i > Len(results) THEN lat
    ELSE ForEachLatencies(
            IF results[i].status = "fulfilled" /\ results[i].success
            THEN PutLatency(lat, LatencyKey(networkId, results[i].rpcUrl), results[i].duration)
            ELSE lat,
            results, i + 1, networkId)

\* allResults.forEach(...): runtimeRpcs after results i..Len(results).
RECURSIVE ForEachRuntime(_, _, _)
ForEachRuntime(rpcs, results, i) ==
    IF i > Len(results) THEN rpcs
    ELSE ForEachRuntime(
            IF results[i].status = "fulfilled" /\ ~results[i].success
               /\ IndexOf(rpcs, results[i].rpcUrl) > 0
            THEN RemoveAt(rpcs, IndexOf(rpcs, results[i].rpcUrl))
            ELSE rpcs,
            results, i + 1)

\* Mutant: the reduce keeps the last key.
ReduceFastest_Last(valid, a, i) == valid[Len(valid)]

\* Object.keys(validLatencies).reduce((a, b) => valid[a] < valid[b] ? a : b)
RECURSIVE ReduceFastest(_, _, _)
ReduceFastest(valid, a, i) ==
    IF i > Len(valid) THEN a
    ELSE ReduceFastest(valid, IF a.dur < valid[i].dur THEN a ELSE valid[i], i + 1)

\* Mutant: the keys are not filtered by the prefix of the network.
findFastestRpc_NoFilter(lat, networkId) ==
    IF Len(lat) = 0 THEN [kind |-> "throw", url |-> <<>>]
    ELSE [kind |-> "url", url |-> SplitSecond(ReduceFastest(lat, lat[1], 2).key)]

\* RPCService.findFastestRpc: it throws on an empty table, returns null when
\* no key has the prefix (reduce of an empty array throws inside the try) and
\* the URL part of the fastest key otherwise.
findFastestRpc(lat, networkId) ==
    IF Len(lat) = 0 THEN [kind |-> "throw", url |-> <<>>]
    ELSE LET valid == SelectSeq(lat, LAMBDA e : StartsWithNetworkId(e.key, networkId))
         IN  IF Len(valid) = 0 THEN [kind |-> "null", url |-> <<>>]
             ELSE [kind |-> "url", url |-> SplitSecond(ReduceFastest(valid, valid[1], 2).key)]

\* ---------------------------------------------------------------- the state
VARIABLES
    \* RPCHandler fields
    _networkRpcs,        \* the registered endpoint list of the network
    _runtimeRpcs,        \* the endpoints the next probe goes to
    _latencies,          \* the latency table
    _refreshLatencies,   \* the refresh counter
    _cacheRefreshCycles, \* the refresh threshold
    _proxySettings,      \* [retryCount, disabled]
    _provider,           \* [set, url, proxied, layers]: null while set is FALSE;
                         \* layers counts the proxies around the JsonRpcProvider
    _autoStorage,        \* whether the handler persists its table
    storage,             \* what was last handed to the StorageService
    lastSelected,        \* [done, url]: the endpoint of the last selection that completed
    got,                 \* how the last getProvider call ended
    latencies,           \* the table handed to findFastestRpc called on its own
    fastestRpcUrl,       \* how that call ended
    \* one testRpcPerformance call
    pc,                  \* idle, race, allSettled, cycleDone, returned
    requests,            \* the promises of the cycle, in runtimeRpcs order
    fastest,             \* index of the request Promise.race resolved with, 0 before
    thrown,              \* what the call threw: "none" when it returned
    \* what a test observing one cycle records of it
    cycle,               \* [stale, count, counter, run, freshRun, probed, reset]:
                         \* the branch taken, the entries and the counter at the
                         \* start, the list probed, whether the counter was 0 then,
                         \* the table at the start
    written,             \* the keys assigned to in this cycle
    sinceReset,          \* cycles started since, and with, the last one that reset the counter
    freshRun,            \* consecutive successful cycles, up to the last, that started with > 1 entries
    \* one call of a provider method through the proxy
    ipc,                 \* idle, primary, candidate, delay, done
    target,              \* URL the proxied provider is connected to
    sortedLatencies,     \* the snapshot taken when the first attempt failed
    loops, idx, res,     \* the locals of the retry loop
    probe,               \* what a test observing one call records of it
    \* one getFastestRpcProvider call
    ensure,              \* [pc, runs, first, outcome]: its position, the
                         \* testRpcPerformance calls it has awaited, the URL the
                         \* first of them returned and how the call ended
    outer,               \* the call of the outer proxy while the proxy it wraps runs
    \* a second testRpcPerformance call, and a reader
    parked,              \* the locals of the call that is not running now
    begun,               \* the testRpcPerformance calls started so far
    seen,                \* [read, during, table]: what getLatencies returned, and
                         \* whether a probe was under way then
    held,                \* [set, url, table]: a provider the caller keeps, and
                         \* the table when it was handed out
    \* functions called on their own
    logCall,             \* one call of log: its arguments, the settings, what it did
    block,               \* one call of _verifyBlock: its argument and its result
    config               \* [set, networkRpcs]: config.networkRpcs of the constructor call

handlerVars == <<_networkRpcs, _runtimeRpcs, _latencies, _refreshLatencies,
                 _cacheRefreshCycles, _proxySettings, _provider, _autoStorage, storage>>
cycleVars == <<pc, requests, fastest, thrown, cycle, written, sinceReset, freshRun>>
invokeVars == <<ipc, target, sortedLatencies, loops, idx, res, probe>>
readVars == <<lastSelected, got>>
pureVars == <<latencies, fastestRpcUrl, logCall, block, config>>
auxVars == <<ensure, outer, parked, begun, seen, held>>
vars == <<handlerVars, cycleVars, invokeVars, readVars, pureVars, auxVars>>

NoCycle ==
    [stale |-> FALSE, count |-> 0, counter |-> 0, run |-> 0, freshRun |-> 0,
     probed |-> <<>>, reset |-> FALSE, before |-> <<>>]

Null == [val |-> "null", by |-> -1]

\* No getProvider call since the last other call.
NoGot == [kind |-> "none", url |-> <<>>]

\* findFastestRpc has not been called on its own.
NoFound == [kind |-> "none", url |-> <<>>]

NoProbe ==
    [primary |-> [kind |-> "pending", val |-> "null"],
     snapshot |-> FALSE, passes |-> 0, nCalls |-> 0, attempts |-> <<>>,
     firstSuccess |-> 0, afterSuccess |-> 0, allThrew |-> TRUE, lastError |-> -1,
     delays |-> 0,
     outcome |-> [kind |-> "pending", val |-> "null", by |-> -1, err |-> -1, site |-> "none"]]

\* getFastestRpcProvider has not been called.
NoEnsure == [pc |-> "idle", runs |-> 0, first |-> <<>>, outcome |-> "none"]

\* No call through a proxy of a proxy is under way.
NoOuter == [stage |-> "none", innerCalls |-> 0, innerSnapshot |-> FALSE]

\* A testRpcPerformance call that has not started.
NoCall ==
    [pc |-> "idle", requests |-> <<>>, fastest |-> 0, thrown |-> "none",
     cycle |-> NoCycle, written |-> {}]

\* config.networkRpcs is not set.
NoConfig == [set |-> FALSE, networkRpcs |-> <<>>]

\* The caller keeps no provider.
NoHeld == [set |-> FALSE, url |-> <<>>, table |-> <<>>]

\* getLatencies has not been called.
NoSeen ==
    [read |-> FALSE, during |-> FALSE, table |-> <<>>, n |-> 0,
     again |-> FALSE, quiet |-> FALSE, table2 |-> <<>>, fields |-> <<>>]

\* log has not been called on its own.
NoLog ==
    [done |-> FALSE, tier |-> "ok", logTier |-> "ok", strictLogs |-> TRUE,
     emitted |-> FALSE, via |-> "none"]

\* _verifyBlock has not been called on its own.
NoBlock == [done |-> FALSE, data |-> GoodBlock, verdict |-> FALSE]

\* ------------------------------------------------------------- construction
\* new RPCHandler(config) with runtimeRpcs unset, the registered list being
\* one of lists, proxySettings.disabled one of flags and, with autoStorage,
\* the table and the counter what the StorageService returns, one of stored.
ConstructedLoaded(lists, flags, stored) ==
    /\ _networkRpcs \in lists
    /\ _runtimeRpcs = <<>>
    /\ \E st \in stored :
            _autoStorage = st[1] /\ _latencies = st[2] /\ _refreshLatencies = st[3]
    /\ _cacheRefreshCycles \in 1..MaxCycles
    /\ _proxySettings \in [retryCount : 0..MaxRetry, disabled : flags]
    /\ _provider = [set |-> FALSE, url |-> <<>>, proxied |-> FALSE, layers |-> 0]
    /\ storage = [written |-> FALSE, latencies |-> <<>>, refreshLatencies |-> 0]
    /\ pc = "idle" /\ requests = <<>> /\ fastest = 0 /\ thrown = "none"
    /\ cycle = NoCycle /\ written = {} /\ sinceReset = 0 /\ freshRun = 0
    /\ ipc = "idle" /\ target = <<>> /\ sortedLatencies = <<>>
    /\ loops = 0 /\ idx = 0 /\ res = Null /\ probe = NoProbe
    /\ lastSelected = [done |-> FALSE, url |-> <<>>] /\ got = NoGot
    /\ ensure = NoEnsure /\ outer = NoOuter
    /\ parked = NoCall /\ begun = 0 /\ seen = NoSeen /\ held = NoHeld

\* The same with autoStorage unset: an empty table and a counter of 0.
ConstructedWith(lists, flags) == ConstructedLoaded(lists, flags, {<<FALSE, <<>>, 0>>})

\* The same with proxySettings.disabled unset, which leaves it false.
ConstructedFrom(lists) == ConstructedWith(lists, {FALSE})

\* new RPCHandler(config) with networkRpcs unset too, for a network with
\* built-in endpoints or for one with none.
Constructed == ConstructedFrom({ExtraRpcs, <<>>})

Init ==
    /\ Constructed
    /\ latencies = <<>> /\ fastestRpcUrl = NoFound /\ logCall = NoLog /\ block = NoBlock
    /\ config = NoConfig

\* ------------------------------------------------------- testRpcPerformance
\* Object.keys(latencies).filter((rpc) => rpc.startsWith(`${networkId}__`)).length
ScopeCount(lat, networkId) ==
    Cardinality({i \in 1..Len(lat) : StartsWithNetworkId(lat[i].key, networkId)})

\* Mutant: the threshold compared with > instead of >=.
shouldRefreshRpcs_OffByOne(lat, refresh, cycles, networkId) ==
    ScopeCount(lat, networkId) <= 1 \/ refresh > cycles

shouldRefreshRpcs(lat, refresh, cycles, networkId) ==
    ScopeCount(lat, networkId) <= 1 \/ refresh >= cycles

\* Mutant: the network prefix is not stripped.
populateRuntimeFromNetwork_NoStrip(rpcs, networkId) == rpcs

populateRuntimeFromNetwork(rpcs, networkId) ==
    [i \in 1..Len(rpcs) |->
        IF StartsWithNetworkId(rpcs[i], networkId) THEN SplitSecond(rpcs[i]) ELSE rpcs[i]]

\* The runtimeRpcs the three branches of testRpcPerformance leave.
CandidateList(stale, lat, runtime, network, networkId) ==
    IF stale THEN populateRuntimeFromNetwork(network, networkId)
    ELSE IF Len(lat) > 0 THEN populateRuntimeFromNetwork(KeysOf(lat), networkId)
    ELSE IF Len(runtime) = 0 THEN populateRuntimeFromNetwork(network, networkId)
    ELSE runtime

\* Mutant: the refresh branch does not reset the counter.
CounterAtProbe_NoReset(stale, refresh) == refresh

\* this._refreshLatencies = 0 of the refresh branch.
CounterAtProbe(stale, refresh) == IF stale THEN 0 ELSE refresh

\* this._refreshLatencies++ of _testRpcPerformance.
\* Mutant: the cycle is counted twice.
CounterAfterCycle_Twice(refresh) == refresh + 2

CounterAfterCycle(refresh) == refresh + 1

Min(a, b) == IF a < b THEN a ELSE b

\* testRpcPerformance up to its first suspension: the refresh decision and,
\* through _testRpcPerformance and RPCService.testRpcPerformance, one request
\* per entry of runtimeRpcs. Promise.race of no promise never settles.
StartCycle ==
    /\ pc = "idle" /\ ipc = "idle"
    /\ LET stale == shouldRefreshRpcs(_latencies, _refreshLatencies, _cacheRefreshCycles, NetworkId)
           list == CandidateList(stale, _latencies, _runtimeRpcs, _networkRpcs, NetworkId)
           many == ScopeCount(_latencies, NetworkId) > 1
       IN  /\ _runtimeRpcs' = list
           /\ _refreshLatencies' = CounterAtProbe(stale, _refreshLatencies)
           /\ requests' = [i \in 1..Len(list) |->
                              [rpcUrl |-> list[i], settled |-> FALSE, how |-> "pending",
                               status |-> "pending",
                               body |-> "bad", success |-> FALSE, duration |-> 0]]
           /\ cycle' = [stale |-> stale,
                        count |-> ScopeCount(_latencies, NetworkId),
                        counter |-> _refreshLatencies,
                        run |-> sinceReset,
                        freshRun |-> freshRun,
                        probed |-> list,
                        reset |-> _refreshLatencies' = 0,
                        before |-> _latencies]
           /\ sinceReset' = IF _refreshLatencies' = 0 THEN 1
                            ELSE Min(sinceReset + 1, MaxCycles + 2)
           /\ freshRun' = IF many THEN Min(freshRun + 1, MaxCycles + 2) ELSE 0
    /\ pc' = "race" /\ fastest' = 0 /\ written' = {} /\ thrown' = "none"
    /\ UNCHANGED <<_networkRpcs, _latencies, _cacheRefreshCycles, _proxySettings, _provider,
                   _autoStorage, storage>>
    /\ UNCHANGED invokeVars
    /\ got' = NoGot /\ UNCHANGED lastSelected
    /\ UNCHANGED pureVars

\* The caller calls testRpcPerformance.
BeginCycle == StartCycle /\ UNCHANGED auxVars

\* One request of the cycle settles; the first to settle decides the race.
Settle(i, net) ==
    /\ pc \in {"race", "allSettled"}
    /\ i \in 1..Len(requests) /\ ~requests[i].settled
    /\ LET r == makeRpcRequest(requests[i].rpcUrl, net)
       IN  requests' = [requests EXCEPT ![i] =
                           [rpcUrl |-> r.rpcUrl, settled |-> TRUE, how |-> net.how,
                            status |-> r.status, body |-> net.body, success |-> r.success, duration |-> r.duration]]
    /\ fastest' = IF fastest = 0 THEN i ELSE fastest
    /\ UNCHANGED <<pc, thrown, cycle, written, sinceReset, freshRun>>
    /\ UNCHANGED handlerVars
    /\ UNCHANGED invokeVars
    /\ UNCHANGED readVars
    /\ UNCHANGED pureVars
    /\ UNCHANGED auxVars

\* RPCService.testRpcPerformance resumes after await Promise.race: with the
\* result of the first promise to settle or, had that promise rejected, by
\* throwing, which neither it nor its callers catch.
RaceResumes ==
    /\ pc = "race" /\ fastest # 0
    /\ LET f == requests[fastest]
           k == LatencyKey(NetworkId, f.rpcUrl)
       IN  IF f.status = "rejected"
           THEN /\ pc' = "returned" /\ thrown' = "probe" /\ freshRun' = 0
                /\ UNCHANGED <<_latencies, written>>
           ELSE /\ pc' = "allSettled"
                /\ _latencies' = IF f.success THEN PutLatency(_latencies, k, f.duration)
                                 ELSE _latencies
                /\ written' = IF f.success THEN written \union {k} ELSE written
                /\ UNCHANGED <<thrown, freshRun>>
    /\ UNCHANGED <<requests, fastest, cycle, sinceReset>>
    /\ UNCHANGED <<_networkRpcs, _runtimeRpcs, _refreshLatencies, _cacheRefreshCycles,
                   _proxySettings, _provider, _autoStorage, storage>>
    /\ UNCHANGED invokeVars
    /\ UNCHANGED readVars
    /\ UNCHANGED pureVars
    /\ UNCHANGED auxVars

\* StorageService.setLatencies(env, latencies) and
\* StorageService.setRefreshLatencies(env, refreshLatencies).
StorageSet(lat, refresh) == [written |-> TRUE, latencies |-> lat, refreshLatencies |-> refresh]

\* Mutant: runtimeRpcs is the registered list itself, not a copy of it.
NetworkAfterForEach_Aliased(network, results) == ForEachRuntime(network, results, 1)

\* The registered list after the forEach: the splice works on runtimeRpcs,
\* an array populateRuntimeFromNetwork made with map, so the list is as before.
NetworkAfterForEach(network, results) == network

\* RPCService.testRpcPerformance resumes after await Promise.allSettled and
\* returns; _testRpcPerformance stores the result, counts the cycle and hands
\* both to the StorageService.
AllSettledResumes ==
    /\ pc = "allSettled"
    /\ \A i \in 1..Len(requests) : requests[i].settled
    /\ _latencies' = ForEachLatencies(_latencies, requests, 1, NetworkId)
    /\ _runtimeRpcs' = ForEachRuntime(_runtimeRpcs, requests, 1)
    /\ _refreshLatencies' = CounterAfterCycle(_refreshLatencies)
    /\ written' = written \union
                    {LatencyKey(NetworkId, requests[i].rpcUrl) :
                        i \in {j \in 1..Len(requests) : requests[j].success}}
    /\ _networkRpcs' = NetworkAfterForEach(_networkRpcs, requests)
    /\ storage' = StorageSet(_latencies', _refreshLatencies')
    /\ pc' = "cycleDone"
    /\ UNCHANGED <<requests, fastest, thrown, cycle, sinceReset, freshRun>>
    /\ UNCHANGED <<_cacheRefreshCycles, _proxySettings, _provider, _autoStorage>>
    /\ UNCHANGED invokeVars
    /\ UNCHANGED readVars
    /\ UNCHANGED pureVars
    /\ UNCHANGED auxVars

\* new JsonRpcProvider({ url, skipFetchSetup: true }, networkId)
JsonRpcProvider(url) == [set |-> TRUE, url |-> url, proxied |-> FALSE, layers |-> 0]

\* Mutant: the proxy is made whatever proxySettings.disabled is.
createProviderProxy_Always(provider, settings) ==
    [provider EXCEPT !.proxied = TRUE, !.layers = @ + 1]

\* createProviderProxy(provider, handler): the provider itself when the proxy
\* is disabled, else a new Proxy around it.
createProviderProxy(provider, settings) ==
    IF settings.disabled THEN provider
    ELSE [provider EXCEPT !.proxied = TRUE, !.layers = @ + 1]

\* What testRpcPerformance throws on the result f of findFastestRpc: the
\* error of findFastestRpc itself, or its own when f is null.
SelectionThrown(f) ==
    IF f.kind = "url" THEN "none"
    ELSE IF f.kind = "throw" THEN "No latencies found"
    ELSE "Failed to find fastest RPC"

\* Mutant: the provider is made and bound before the test for null.
Select_BindsFirst ==
    /\ pc = "cycleDone"
    /\ LET f == findFastestRpc(_latencies, NetworkId)
       IN  IF f.kind = "url"
           THEN /\ _provider' = createProviderProxy(JsonRpcProvider(f.url), _proxySettings)
                /\ lastSelected' = [done |-> TRUE, url |-> f.url]
                /\ storage' = IF _autoStorage THEN StorageSet(_latencies, _refreshLatencies)
                              ELSE storage
                /\ thrown' = SelectionThrown(f)
           ELSE /\ _provider' = createProviderProxy(JsonRpcProvider(<<>>), _proxySettings)
                /\ lastSelected' = lastSelected
                /\ storage' = storage
                /\ thrown' = SelectionThrown(f)
    /\ freshRun' = IF findFastestRpc(_latencies, NetworkId).kind = "url" THEN freshRun ELSE 0
    /\ pc' = "returned"
    /\ UNCHANGED <<requests, fastest, cycle, written, sinceReset>>
    /\ UNCHANGED <<_networkRpcs, _runtimeRpcs, _latencies, _refreshLatencies,
                   _cacheRefreshCycles, _proxySettings, _autoStorage>>
    /\ UNCHANGED invokeVars
    /\ UNCHANGED got
    /\ UNCHANGED pureVars
    /\ UNCHANGED auxVars

\* testRpcPerformance after _testRpcPerformance: selection and binding.
Select ==
    /\ pc = "cycleDone"
    /\ LET f == findFastestRpc(_latencies, NetworkId)
       IN  IF f.kind = "url"
           THEN /\ _provider' = createProviderProxy(JsonRpcProvider(f.url), _proxySettings)
                /\ lastSelected' = [done |-> TRUE, url |-> f.url]
                /\ storage' = IF _autoStorage THEN StorageSet(_latencies, _refreshLatencies)
                              ELSE storage
                /\ thrown' = SelectionThrown(f)
           ELSE /\ _provider' = _provider
                /\ lastSelected' = lastSelected
                /\ storage' = storage
                /\ thrown' = SelectionThrown(f)
    /\ freshRun' = IF findFastestRpc(_latencies, NetworkId).kind = "url" THEN freshRun ELSE 0
    /\ pc' = "returned"
    /\ UNCHANGED <<requests, fastest, cycle, written, sinceReset>>
    /\ UNCHANGED <<_networkRpcs, _runtimeRpcs, _latencies, _refreshLatencies,
                   _cacheRefreshCycles, _proxySettings, _autoStorage>>
    /\ UNCHANGED invokeVars
    /\ UNCHANGED got
    /\ UNCHANGED pureVars
    /\ UNCHANGED auxVars

\* The caller has the result of testRpcPerformance.
Returned ==
    /\ pc = "returned"
    /\ pc' = "idle" /\ requests' = <<>> /\ fastest' = 0 /\ thrown' = "none"
    /\ cycle' = NoCycle /\ written' = {}
    /\ UNCHANGED <<sinceReset, freshRun>>
    /\ UNCHANGED handlerVars
    /\ UNCHANGED invokeVars
    /\ UNCHANGED readVars
    /\ UNCHANGED pureVars
    /\ UNCHANGED auxVars

\* -------------------------------------------------------------- getProvider
\* Mutant: the provider is returned without the test for null.
getProvider_NoCheck(provider) == [kind |-> "return", url |-> provider.url]

\* getProvider(): throws when this._provider is null, else returns it.
getProvider(provider) ==
    IF ~provider.set THEN [kind |-> "throw", url |-> <<>>]
    ELSE [kind |-> "return", url |-> provider.url]

\* The caller calls getProvider between two other calls.
GetProvider ==
    /\ pc = "idle" /\ ipc = "idle" /\ got = NoGot
    /\ got' = getProvider(_provider)
    /\ UNCHANGED lastSelected
    /\ UNCHANGED handlerVars
    /\ UNCHANGED cycleVars
    /\ UNCHANGED invokeVars
    /\ UNCHANGED pureVars
    /\ UNCHANGED auxVars

\* ------------------------------------------------ the provider proxy (invoke)
\* The values a provider method can resolve with; JavaScript takes the
\* first as true and the others (0, null, false, "") as false.
Values == {"0x1", "0", "null", "false", ""}

Truthy(v) == v \notin {"0", "null", "false", ""}

\* How one call of the method on one provider ends.
CallOutcomes == [kind : {"return"}, val : Values] \union {[kind |-> "throw", val |-> "null"]}

\* Array.prototype.sort((a, b) => a[1] - b[1]): stable, ascending duration.
RECURSIVE InsertSorted(_, _)
InsertSorted(sorted, e) ==
    IF sorted = <<>> THEN <<e>>
    ELSE IF sorted[Len(sorted)].dur <= e.dur THEN Append(sorted, e)
    ELSE Append(InsertSorted(SubSeq(sorted, 1, Len(sorted) - 1), e), sorted[Len(sorted)])

RECURSIVE SortFrom(_, _, _)
SortFrom(lat, i, acc) ==
    IF i > Len(lat) THEN acc ELSE SortFrom(lat, i + 1, InsertSorted(acc, lat[i]))

\* Mutant: the entries are taken in the order of the table.
SortedEntries_Unsorted(lat) == lat

\* Object.entries(handler.getLatencies()).sort(...)
SortedEntries(lat) == SortFrom(lat, 1, <<>>)

\* return res / return response: the call resolves.
Resolve(l, i, r, p) ==
    /\ ipc' = "done" /\ loops' = l /\ idx' = i /\ res' = r
    /\ probe' = [p EXCEPT !.outcome =
                    [kind |-> "return", val |-> r.val, by |-> r.by, err |-> -1, site |-> "return"]]

\* throw: the call rejects with the error of call number err (-1: no error
\* object, the value thrown is what handler.log returned).
Reject(l, i, r, p, err, site) ==
    /\ ipc' = "done" /\ loops' = l /\ idx' = i /\ res' = r
    /\ probe' = [p EXCEPT !.outcome =
                    [kind |-> "throw", val |-> "undefined", by |-> -1, err |-> err, site |-> site]]

\* The body of the for loop starts for entry i of the snapshot: the method is
\* called on a new provider for that entry.
EnterCall(l, i, r, p) ==
    /\ ipc' = "candidate" /\ loops' = l /\ idx' = i /\ res' = r
    /\ probe' = [p EXCEPT !.nCalls = @ + 1,
                          !.attempts[i] = @ + 1,
                          !.passes = IF i = 1 THEN @ + 1 ELSE @,
                          !.afterSuccess = IF p.firstSuccess # 0 THEN @ + 1 ELSE @]

\* while (loops > 0): the next pass starts, or the loop is left and res returned.
WhileTest(l, r, snap, p) ==
    IF l > 0 /\ Len(snap) > 0 THEN EnterCall(l, 1, r, p) ELSE Resolve(l, 0, r, p)

\* The end of the body of the for loop for entry i: the next entry, or
\* `if (res) break; loops--` and the while test.
ForNext(l, i, r, snap, p) ==
    IF i < Len(snap) THEN EnterCall(l, i + 1, r, p)
    ELSE IF Truthy(r.val) THEN Resolve(l, i, r, p)
    ELSE WhileTest(l - 1, r, snap, p)

\* Mutant: the check for an empty snapshot is missing.
Failover_NoEmptyCheck(snap, settings, p) == WhileTest(settings.retryCount, Null, snap, p)

\* After the first attempt did not return: the snapshot, the empty check and
\* the entry into the retry loop.
Failover(snap, settings, p) ==
    IF Len(snap) = 0 THEN Reject(0, 0, Null, p, -1, "NO_RPCS_AVAILABLE")
    ELSE WhileTest(settings.retryCount, Null, snap, p)

\* The caller calls a method of the provider the handler holds.
InvokeBound ==
    /\ ipc = "idle" /\ pc = "idle"
    /\ _provider.set /\ _provider.proxied /\ _provider.layers = 1
    /\ target' = _provider.url
    /\ ipc' = "primary" /\ probe' = NoProbe
    /\ UNCHANGED <<sortedLatencies, loops, idx, res>>
    /\ UNCHANGED handlerVars
    /\ UNCHANGED cycleVars
    /\ got' = NoGot /\ UNCHANGED lastSelected
    /\ UNCHANGED pureVars
    /\ UNCHANGED auxVars

\* The caller calls a method of handler.createProviderProxy(provider, handler)
\* for a provider of its own, connected to url.
InvokeDirect(url) ==
    /\ ipc = "idle" /\ pc = "idle"
    /\ ~_proxySettings.disabled
    /\ target' = url
    /\ ipc' = "primary" /\ probe' = NoProbe
    /\ UNCHANGED <<sortedLatencies, loops, idx, res>>
    /\ UNCHANGED handlerVars
    /\ UNCHANGED cycleVars
    /\ got' = NoGot /\ UNCHANGED lastSelected
    /\ UNCHANGED pureVars
    /\ UNCHANGED auxVars

\* Mutant: the proxy keeps the table it was created over.
PrimarySettles_AtBind(o) ==
    /\ ipc = "primary"
    /\ LET p == [probe EXCEPT !.primary = o,
                              !.lastError = IF o.kind = "throw" THEN 0 ELSE @]
       IN  IF o.kind = "return" /\ Truthy(o.val)
           THEN /\ Resolve(loops, idx, [val |-> o.val, by |-> 0], p)
                /\ sortedLatencies' = sortedLatencies
           ELSE LET snap == SortedEntries(IF held.set THEN held.table ELSE _latencies)
                IN  /\ sortedLatencies' = snap
                    /\ Failover(snap, _proxySettings,
                                [p EXCEPT !.snapshot = TRUE,
                                          !.attempts = [j \in 1..Len(snap) |-> 0]])
    /\ UNCHANGED target
    /\ UNCHANGED handlerVars
    /\ UNCHANGED cycleVars
    /\ UNCHANGED readVars
    /\ UNCHANGED pureVars
    /\ UNCHANGED auxVars

\* The first attempt, on the provider the proxy wraps, ends with o.
PrimarySettles(o) ==
    /\ ipc = "primary"
    /\ LET p == [probe EXCEPT !.primary = o,
                              !.lastError = IF o.kind = "throw" THEN 0 ELSE @]
       IN  IF o.kind = "return" /\ Truthy(o.val)
           THEN /\ Resolve(loops, idx, [val |-> o.val, by |-> 0], p)
                /\ sortedLatencies' = sortedLatencies
           ELSE LET snap == SortedEntries(_latencies)
                IN  /\ sortedLatencies' = snap
                    /\ Failover(snap, _proxySettings,
                                [p EXCEPT !.snapshot = TRUE,
                                          !.attempts = [j \in 1..Len(snap) |-> 0]])
    /\ UNCHANGED target
    /\ UNCHANGED handlerVars
    /\ UNCHANGED cycleVars
    /\ UNCHANGED readVars
    /\ UNCHANGED pureVars
    /\ UNCHANGED auxVars

\* Mutant: the handler is bound to the endpoint that answered.
BoundAfterCandidate_Rebind(provider, url, o) ==
    IF o.kind = "return" /\ Truthy(o.val) THEN [provider EXCEPT !.url = url] ELSE provider

\* handler._provider after the call on the provider of an entry of the
\* snapshot: newProvider is a local of the wrapper and is assigned to no field.
BoundAfterCandidate(provider, url, o) == provider

\* The call on the provider of snapshot entry idx ends with o.
CandidateSettles(o) ==
    /\ ipc = "candidate"
    /\ IF o.kind = "return"
       THEN IF Truthy(o.val)
            THEN ForNext(0, idx, [val |-> o.val, by |-> probe.nCalls], sortedLatencies,
                         [probe EXCEPT !.allThrew = FALSE,
                                       !.firstSuccess = IF @ = 0 THEN probe.nCalls ELSE @])
            ELSE ForNext(loops, idx, res, sortedLatencies, [probe EXCEPT !.allThrew = FALSE])
       ELSE LET p == [probe EXCEPT !.lastError = probe.nCalls]
            IN  IF loops = 1
                THEN Reject(loops, idx, res, p, probe.nCalls, "last loop")
                ELSE /\ ipc' = "delay"
                     /\ probe' = [p EXCEPT !.delays = @ + 1]
                     /\ UNCHANGED <<loops, idx, res>>
    /\ _provider' = BoundAfterCandidate(_provider, SplitSecond(sortedLatencies[idx].key), o)
    /\ UNCHANGED <<target, sortedLatencies>>
    /\ UNCHANGED <<_networkRpcs, _runtimeRpcs, _latencies, _refreshLatencies,
                   _cacheRefreshCycles, _proxySettings, _autoStorage, storage>>
    /\ UNCHANGED cycleVars
    /\ UNCHANGED readVars
    /\ UNCHANGED pureVars
    /\ UNCHANGED auxVars

\* setTimeout(resolve, retryDelay) fires.
DelayElapses ==
    /\ ipc = "delay"
    /\ ForNext(loops, idx, res, sortedLatencies, probe)
    /\ UNCHANGED <<target, sortedLatencies>>
    /\ UNCHANGED handlerVars
    /\ UNCHANGED cycleVars
    /\ UNCHANGED readVars
    /\ UNCHANGED pureVars
    /\ UNCHANGED auxVars

\* The caller has the result of the call.
InvokeReturned ==
    /\ ipc = "done"
    /\ ipc' = "idle" /\ target' = <<>> /\ sortedLatencies' = <<>>
    /\ loops' = 0 /\ idx' = 0 /\ res' = Null /\ probe' = NoProbe
    /\ UNCHANGED handlerVars
    /\ UNCHANGED cycleVars
    /\ UNCHANGED readVars
    /\ UNCHANGED pureVars
    /\ UNCHANGED auxVars

InvokeNext ==
    \/ InvokeBound
    \/ \E u \in {ExtraRpcs[i] : i \in 1..Len(ExtraRpcs)} : InvokeDirect(u)
    \/ \E o \in CallOutcomes : PrimarySettles(o)
    \/ \E o \in CallOutcomes : CandidateSettles(o)
    \/ DelayElapses
    \/ InvokeReturned

CycleNext ==
    \/ BeginCycle
    \/ \E i \in 1..Len(requests), net \in NetOutcomes : Settle(i, net)
    \/ RaceResumes
    \/ AllSettledResumes
    \/ Select
    \/ Returned

Next == CycleNext \/ InvokeNext \/ GetProvider

Spec == Init /\ [][Next]_vars

\* What the runtime does without the client: a request that is under way
\* settles (response, error or timeout), and a suspended testRpcPerformance
\* resumes once the promise it awaits has settled.
Fairness ==
    /\ WF_vars(\E i \in 1..Len(requests), net \in NetOutcomes : Settle(i, net))
    /\ WF_vars(RaceResumes)
    /\ WF_vars(AllSettledResumes)
    /\ WF_vars(Select)

\* The handler with a client that calls testRpcPerformance only. Proxied
\* calls and getProvider start between two cycles and write nothing a cycle
\* reads, so the cycles of Spec are those of this specification.
FairSpec == Init /\ [][CycleNext]_vars /\ Fairness

\* ------------------------------------------------- getFastestRpcProvider
\* An endpoint a client registers through config.networkRpcs.
Localhost == <<"http://localhost:8545">>

\* url.includes("localhost")
IncludesLocalhost(url) == \E i \in 1..Len(url) : url[i] = "http://localhost:8545"

\* Mutant: the test of the URL is missing.
RerunNeeded_AnyUrl(url, networkId) == ~(networkId = "31337" \/ networkId = "1337")

\* The condition under which getFastestRpcProvider calls testRpcPerformance a
\* second time; fastest, a provider, is never null.
RerunNeeded(url, networkId) ==
    IncludesLocalhost(url) /\ ~(networkId = "31337" \/ networkId = "1337")

\* config.networkRpcs = [url] on a network without built-in endpoints:
\* _initialize takes the list and _updateConfig appends it to itself.
RegisteredTwice(url) == <<url, url>>

\* The caller calls getFastestRpcProvider, which calls testRpcPerformance.
EnsureClient ==
    /\ ensure.pc = "idle" /\ pc = "idle" /\ ipc = "idle"
    /\ ensure' = [pc |-> "first", runs |-> 0, first |-> <<>>, outcome |-> "none"]
    /\ UNCHANGED outer
    /\ UNCHANGED handlerVars
    /\ UNCHANGED cycleVars
    /\ UNCHANGED invokeVars
    /\ UNCHANGED readVars
    /\ UNCHANGED <<parked, begun, seen, held>>
    /\ UNCHANGED pureVars

\* getFastestRpcProvider resumes with the result of a testRpcPerformance call:
\* it rethrows, calls testRpcPerformance once more, or wraps the provider
\* that call returned, which is the handler's, and stores and returns it.
EnsureResumes ==
    /\ ensure.pc \in {"first", "second"} /\ pc = "returned"
    /\ LET n == ensure.runs + 1
           u == IF ensure.pc = "first" THEN _provider.url ELSE ensure.first
       IN  IF thrown # "none"
           THEN /\ ensure' = [ensure EXCEPT !.pc = "done", !.runs = n, !.outcome = "throw"]
                /\ UNCHANGED _provider
           ELSE IF ensure.pc = "first" /\ RerunNeeded(_provider.url, NetworkId)
           THEN /\ ensure' = [ensure EXCEPT !.pc = "second", !.runs = n, !.first = u]
                /\ UNCHANGED _provider
           ELSE /\ ensure' = [ensure EXCEPT !.pc = "done", !.runs = n, !.first = u,
                                            !.outcome = "return"]
                /\ _provider' = createProviderProxy(_provider, _proxySettings)
    /\ pc' = "idle" /\ requests' = <<>> /\ fastest' = 0 /\ thrown' = "none"
    /\ cycle' = NoCycle /\ written' = {}
    /\ UNCHANGED <<sinceReset, freshRun>>
    /\ UNCHANGED <<_networkRpcs, _runtimeRpcs, _latencies, _refreshLatencies,
                   _cacheRefreshCycles, _proxySettings, _autoStorage, storage>>
    /\ UNCHANGED outer
    /\ UNCHANGED invokeVars
    /\ UNCHANGED readVars
    /\ UNCHANGED <<parked, begun, seen, held>>
    /\ UNCHANGED pureVars

\* The caller has the result of getFastestRpcProvider.
EnsureReturned ==
    /\ ensure.pc = "done"
    /\ ensure' = NoEnsure
    /\ UNCHANGED outer
    /\ UNCHANGED handlerVars
    /\ UNCHANGED cycleVars
    /\ UNCHANGED invokeVars
    /\ UNCHANGED readVars
    /\ UNCHANGED <<parked, begun, seen, held>>
    /\ UNCHANGED pureVars

\* The caller calls a method of the provider getFastestRpcProvider returned:
\* a proxy whose target is the proxy testRpcPerformance made, so that the
\* first attempt of the outer proxy is a whole call of the inner one.
InvokeEnsured ==
    /\ ipc = "idle" /\ pc = "idle" /\ ensure.pc = "idle"
    /\ _provider.set /\ _provider.layers = 2
    /\ target' = _provider.url
    /\ ipc' = "primary" /\ probe' = NoProbe
    /\ outer' = [stage |-> "inner", innerCalls |-> 0, innerSnapshot |-> FALSE]
    /\ UNCHANGED <<sortedLatencies, loops, idx, res>>
    /\ UNCHANGED ensure
    /\ UNCHANGED handlerVars
    /\ UNCHANGED cycleVars
    /\ got' = NoGot /\ UNCHANGED lastSelected
    /\ UNCHANGED <<parked, begun, seen, held>>
    /\ UNCHANGED pureVars

\* The call of the inner proxy has ended: the first attempt of the outer
\* proxy ends with its result, and the outer proxy goes on as any proxy does.
OuterPrimarySettles ==
    /\ ipc = "done" /\ outer.stage = "inner"
    /\ LET o == [kind |-> probe.outcome.kind, val |-> probe.outcome.val]
           p == [NoProbe EXCEPT !.primary = o,
                                !.lastError = IF o.kind = "throw" THEN 0 ELSE @]
       IN  IF o.kind = "return" /\ Truthy(o.val)
           THEN /\ Resolve(0, 0, [val |-> o.val, by |-> 0], p)
                /\ sortedLatencies' = <<>>
           ELSE LET snap == SortedEntries(_latencies)
                IN  /\ sortedLatencies' = snap
                    /\ Failover(snap, _proxySettings,
                                [p EXCEPT !.snapshot = TRUE,
                                          !.attempts = [j \in 1..Len(snap) |-> 0]])
    /\ outer' = [stage |-> "outer", innerCalls |-> probe.nCalls,
                 innerSnapshot |-> probe.snapshot]
    /\ UNCHANGED target
    /\ UNCHANGED ensure
    /\ UNCHANGED handlerVars
    /\ UNCHANGED cycleVars
    /\ UNCHANGED readVars
    /\ UNCHANGED <<parked, begun, seen, held>>
    /\ UNCHANGED pureVars

\* The caller has the result of the call through the two proxies.
EnsuredReturned ==
    /\ ipc = "done" /\ outer.stage = "outer"
    /\ ipc' = "idle" /\ target' = <<>> /\ sortedLatencies' = <<>>
    /\ loops' = 0 /\ idx' = 0 /\ res' = Null /\ probe' = NoProbe
    /\ outer' = NoOuter
    /\ UNCHANGED ensure
    /\ UNCHANGED handlerVars
    /\ UNCHANGED cycleVars
    /\ UNCHANGED readVars
    /\ UNCHANGED <<parked, begun, seen, held>>
    /\ UNCHANGED pureVars

\* The handler of a client that registers no endpoint, or the localhost one
\* on a network without built-in endpoints, and leaves the proxy enabled.
EnsureInit ==
    /\ ConstructedFrom({ExtraRpcs, RegisteredTwice(Localhost)})
    /\ ~_proxySettings.disabled
    /\ latencies = <<>> /\ fastestRpcUrl = NoFound /\ logCall = NoLog /\ block = NoBlock
    /\ config = IF _networkRpcs = ExtraRpcs THEN NoConfig
                ELSE [set |-> TRUE, networkRpcs |-> <<Localhost>>]

\* A client that obtains its provider from getFastestRpcProvider and calls
\* methods of it, one call at a time.
EnsureNext ==
    \/ EnsureClient
    \/ (ensure.pc \in {"first", "second"} /\ BeginCycle)
    \/ \E i \in 1..Len(requests), net \in NetOutcomes : Settle(i, net)
    \/ RaceResumes
    \/ AllSettledResumes
    \/ Select
    \/ EnsureResumes
    \/ EnsureReturned
    \/ InvokeEnsured
    \/ (outer.stage # "none" /\ \E o \in CallOutcomes : PrimarySettles(o))
    \/ (outer.stage # "none" /\ \E o \in CallOutcomes : CandidateSettles(o))
    \/ (outer.stage # "none" /\ DelayElapses)
    \/ OuterPrimarySettles
    \/ EnsuredReturned

EnsureSpec == EnsureInit /\ [][EnsureNext]_vars

\* ------------------------------------------------- proxySettings.disabled
\* The caller calls a method of the provider the handler holds, which is the
\* JsonRpcProvider itself.
InvokePlain ==
    /\ ipc = "idle" /\ pc = "idle"
    /\ _provider.set /\ ~_provider.proxied
    /\ target' = _provider.url
    /\ ipc' = "plain" /\ probe' = NoProbe
    /\ UNCHANGED <<sortedLatencies, loops, idx, res>>
    /\ UNCHANGED handlerVars
    /\ UNCHANGED cycleVars
    /\ got' = NoGot /\ UNCHANGED lastSelected
    /\ UNCHANGED pureVars
    /\ UNCHANGED auxVars

\* The method of the JsonRpcProvider ends with o, and so does the call.
PlainSettles(o) ==
    /\ ipc = "plain"
    /\ ipc' = "done"
    /\ probe' = [probe EXCEPT
                    !.primary = o,
                    !.lastError = IF o.kind = "throw" THEN 0 ELSE @,
                    !.outcome = IF o.kind = "return"
                                THEN [kind |-> "return", val |-> o.val, by |-> 0,
                                      err |-> -1, site |-> "provider"]
                                ELSE [kind |-> "throw", val |-> "undefined", by |-> -1,
                                      err |-> 0, site |-> "provider"]]
    /\ UNCHANGED <<target, sortedLatencies, loops, idx, res>>
    /\ UNCHANGED handlerVars
    /\ UNCHANGED cycleVars
    /\ UNCHANGED readVars
    /\ UNCHANGED pureVars
    /\ UNCHANGED auxVars

\* ------------------------------------- a provider kept across a later cycle
\* The caller keeps the provider testRpcPerformance returned (or getProvider
\* gave it) for later use.
Hand ==
    /\ pc = "idle" /\ ipc = "idle"
    /\ _provider.set /\ _provider.proxied /\ _provider.layers = 1
    /\ ~held.set
    /\ held' = [set |-> TRUE, url |-> _provider.url, table |-> _latencies]
    /\ UNCHANGED <<ensure, outer, parked, begun, seen>>
    /\ UNCHANGED handlerVars
    /\ UNCHANGED cycleVars
    /\ UNCHANGED invokeVars
    /\ UNCHANGED readVars
    /\ UNCHANGED pureVars

\* The caller calls a method of the provider it kept.
InvokeHeld ==
    /\ ipc = "idle" /\ pc = "idle"
    /\ held.set
    /\ target' = held.url
    /\ ipc' = "primary" /\ probe' = NoProbe
    /\ UNCHANGED <<sortedLatencies, loops, idx, res>>
    /\ UNCHANGED handlerVars
    /\ UNCHANGED cycleVars
    /\ got' = NoGot /\ UNCHANGED lastSelected
    /\ UNCHANGED pureVars
    /\ UNCHANGED auxVars

\* A handler with the built-in endpoints and one retry pass.
HeldInit ==
    /\ Init /\ _networkRpcs = ExtraRpcs /\ _proxySettings.retryCount = 1

HeldNext ==
    \/ CycleNext
    \/ Hand
    \/ InvokeHeld
    \/ \E o \in CallOutcomes : PrimarySettles(o)
    \/ \E o \in CallOutcomes : CandidateSettles(o)
    \/ DelayElapses
    \/ InvokeReturned

HeldSpec == HeldInit /\ [][HeldNext]_vars

\* A handler with the built-in endpoints and proxySettings.disabled set to
\* true, set to false or left unset.
PassInit ==
    /\ ConstructedWith({ExtraRpcs}, BOOLEAN)
    /\ latencies = <<>> /\ fastestRpcUrl = NoFound /\ logCall = NoLog /\ block = NoBlock
    /\ config = NoConfig

PassNext ==
    \/ CycleNext
    \/ InvokeBound
    \/ InvokePlain
    \/ \E o \in CallOutcomes : PlainSettles(o)
    \/ \E o \in CallOutcomes : PrimarySettles(o)
    \/ \E o \in CallOutcomes : CandidateSettles(o)
    \/ DelayElapses
    \/ InvokeReturned

\* A client that calls testRpcPerformance and methods of the provider the
\* handler holds, one call at a time.
PassSpec == PassInit /\ [][PassNext]_vars

\* ------------------------------------- two testRpcPerformance calls, a reader
\* The testRpcPerformance calls one behaviour starts.
MaxCalls == 2

\* A probe is under way for a call at pc: its decision is taken, its writes
\* are not all done.
InCycle(p) == p \in {"race", "allSettled"}

\* A caller calls testRpcPerformance, whether or not another call is
\* suspended.
ConcBegin ==
    /\ begun < MaxCalls
    /\ StartCycle
    /\ begun' = begun + 1
    /\ UNCHANGED <<ensure, outer, parked, seen, held>>

\* The event loop turns to the other call: each of the two is suspended at
\* an await, or has not started, and the one that ran last is set aside.
Switch ==
    /\ ipc = "idle"
    /\ parked' = [pc |-> pc, requests |-> requests, fastest |-> fastest,
                  thrown |-> thrown, cycle |-> cycle, written |-> written]
    /\ pc' = parked.pc /\ requests' = parked.requests /\ fastest' = parked.fastest
    /\ thrown' = parked.thrown /\ cycle' = parked.cycle /\ written' = parked.written
    /\ UNCHANGED <<sinceReset, freshRun>>
    /\ UNCHANGED <<ensure, outer, begun, seen, held>>
    /\ UNCHANGED handlerVars
    /\ UNCHANGED invokeVars
    /\ UNCHANGED readVars
    /\ UNCHANGED pureVars

\* getLatencies(): the table as it is when the caller reads it.
getLatencies(lat) == lat

\* A caller reads the table, whether or not a call is suspended.
ReadLatencies ==
    /\ ~seen.read
    /\ seen' = [seen EXCEPT !.read = TRUE, !.during = InCycle(pc),
                             !.table = getLatencies(_latencies), !.n = begun]
    /\ UNCHANGED <<ensure, outer, parked, begun, held>>
    /\ UNCHANGED handlerVars
    /\ UNCHANGED cycleVars
    /\ UNCHANGED invokeVars
    /\ UNCHANGED readVars
    /\ UNCHANGED pureVars

\* getRuntimeRpcs(), getRefreshLatencies(), getNetworkRpcs()
getFields(runtime, refresh, network) == <<runtime, refresh, network>>

\* Mutant: the accessor hands out the table and leaves the handler a new one.
ReadAgain_Clears ==
    /\ seen.read /\ ~seen.again
    /\ seen' = [seen EXCEPT !.again = TRUE, !.table2 = getLatencies(_latencies),
                            !.quiet = ~seen.during /\ ~InCycle(pc) /\ seen.n = begun,
                            !.fields = getFields(_runtimeRpcs, _refreshLatencies, _networkRpcs)]
    /\ _latencies' = <<>>
    /\ UNCHANGED <<_networkRpcs, _runtimeRpcs, _refreshLatencies,
                   _cacheRefreshCycles, _proxySettings, _provider, _autoStorage, storage>>
    /\ UNCHANGED <<ensure, outer, parked, begun, held>>
    /\ UNCHANGED cycleVars
    /\ UNCHANGED invokeVars
    /\ UNCHANGED readVars
    /\ UNCHANGED pureVars

\* The caller reads the table a second time, and the other fields the
\* accessors return; quiet records that no probe was under way at either
\* read and none started between them.
ReadAgain ==
    /\ seen.read /\ ~seen.again
    /\ seen' = [seen EXCEPT !.again = TRUE, !.table2 = getLatencies(_latencies),
                            !.quiet = ~seen.during /\ ~InCycle(pc) /\ seen.n = begun,
                            !.fields = getFields(_runtimeRpcs, _refreshLatencies, _networkRpcs)]
    /\ UNCHANGED <<ensure, outer, parked, begun, held>>
    /\ UNCHANGED handlerVars
    /\ UNCHANGED cycleVars
    /\ UNCHANGED invokeVars
    /\ UNCHANGED readVars
    /\ UNCHANGED pureVars

\* A handler with the built-in endpoints.
ConcInit ==
    /\ Init
    /\ _networkRpcs = ExtraRpcs
    /\ _proxySettings.retryCount = 0

ConcNext ==
    \/ ConcBegin
    \/ Switch
    \/ \E i \in 1..Len(requests), net \in NetOutcomes : Settle(i, net)
    \/ RaceResumes
    \/ AllSettledResumes
    \/ Select
    \/ Returned

\* Callers that do not await one call before they make the next.
ConcSpec == ConcInit /\ [][ConcNext]_vars

ReadNext ==
    \/ ConcBegin
    \/ ReadLatencies
    \/ \E i \in 1..Len(requests), net \in NetOutcomes : Settle(i, net)
    \/ RaceResumes
    \/ AllSettledResumes
    \/ Select
    \/ Returned

\* A caller that reads the table without awaiting the call it has made.
ReadSpec == ConcInit /\ [][ReadNext]_vars

\* ----------------------------------------------- findFastestRpc on its own
\* The keys of the tables findFastestRpc is tried on: endpoints of the
\* handler's network and of another one.
FindKeys == {<<"1", "A">>, <<"1", "B">>, <<"1", "C">>, <<"2", "A">>, <<"2", "D">>}

\* Record<string, number>: the tables of at most MaxEntries entries, each key
\* once, in every insertion order.
Tables ==
    UNION {{t \in [1..n -> [key : FindKeys, dur : 1..MaxDur]] :
                \A i, j \in 1..n : t[i].key = t[j].key => i = j} : n \in 0..MaxEntries}

FindInit ==
    /\ Constructed
    /\ latencies \in Tables /\ fastestRpcUrl = NoFound
    /\ logCall = NoLog /\ block = NoBlock
    /\ config = NoConfig

\* await RPCService.findFastestRpc(latencies, networkId) and the test of its
\* result that follows in testRpcPerformance.
FindFastest ==
    /\ fastestRpcUrl = NoFound
    /\ fastestRpcUrl' = findFastestRpc(latencies, NetworkId)
    /\ thrown' = SelectionThrown(fastestRpcUrl')
    /\ UNCHANGED <<latencies, logCall, block, config>>
    /\ UNCHANGED <<pc, requests, fastest, cycle, written, sinceReset, freshRun>>
    /\ UNCHANGED handlerVars
    /\ UNCHANGED invokeVars
    /\ UNCHANGED readVars
    /\ UNCHANGED auxVars

FindNext == FindFastest

FindSpec == FindInit /\ [][FindNext]_vars

\* --------------------------------------------------------- log on its own
\* The tiers a message is logged with.
Tiers == {"fatal", "error", "info", "debug", "verbose", "ok"}

\* proxySettings.logTier: a tier, "none", or null (here "").
LogTiers == Tiers \union {"none", ""}

\* Mutant: "verbose" is not taken as "log all".
log_StrictOnly(tier, logTier, strictLogs) ==
    LET lt == IF logTier = "" THEN "ok" ELSE logTier
    IN  IF lt = "none" THEN [emitted |-> FALSE, via |-> "none"]
        ELSE IF strictLogs /\ lt = tier THEN [emitted |-> TRUE, via |-> tier]
        ELSE IF ~strictLogs THEN [emitted |-> TRUE, via |-> "log"]
        ELSE [emitted |-> FALSE, via |-> "none"]

\* RPCHandler.log: whether a method of the logger is called, and which.
log(tier, logTier, strictLogs) ==
    LET lt == IF logTier = "" THEN "ok" ELSE logTier
    IN  IF lt = "none" THEN [emitted |-> FALSE, via |-> "none"]
        ELSE IF strictLogs /\ lt = tier THEN [emitted |-> TRUE, via |-> tier]
        ELSE IF lt = "verbose" \/ ~strictLogs THEN [emitted |-> TRUE, via |-> "log"]
        ELSE [emitted |-> FALSE, via |-> "none"]

LogInit ==
    /\ ConstructedFrom({ExtraRpcs})
    /\ latencies = <<>> /\ fastestRpcUrl = NoFound /\ block = NoBlock
    /\ config = NoConfig
    /\ logCall \in [done : {FALSE}, tier : Tiers, logTier : LogTiers, strictLogs : BOOLEAN,
                    emitted : {FALSE}, via : {"none"}]

\* handler.log(tier, message, metadata)
Log ==
    /\ ~logCall.done
    /\ LET r == log(logCall.tier, logCall.logTier, logCall.strictLogs)
       IN  logCall' = [logCall EXCEPT !.done = TRUE, !.emitted = r.emitted, !.via = r.via]
    /\ UNCHANGED <<latencies, fastestRpcUrl, block, config>>
    /\ UNCHANGED handlerVars
    /\ UNCHANGED cycleVars
    /\ UNCHANGED invokeVars
    /\ UNCHANGED readVars
    /\ UNCHANGED auxVars

LogNext == Log

LogSpec == LogInit /\ [][LogNext]_vars

\* ------------------------------------------------ _verifyBlock on its own
\* A string of n characters c.
Repeat(c, n) == [i \in 1..n |-> c]

\* Hashes of responses: 0x and 64 digits in lower and in upper case, one
\* character short, with two further characters outside the class, made of
\* x only, with | among the digits, with digits that are not hexadecimal.
Hashes ==
    {GoodHash,
     <<"0", "x">> \o Repeat("A", 64),
     <<"0", "x">> \o Repeat("a", 63),
     GoodHash \o <<"z", "z">>,
     Repeat("x", 66),
     <<"0", "x">> \o Repeat("|", 2) \o Repeat("a", 62),
     <<"0", "x">> \o Repeat("g", 64)}

\* Values of number and timestamp.
Quantities == {<<"0", "x", "1", "0">>, <<"1", "f">>, <<"0", "x", "0">>, <<"z", "z">>}

\* The responses _verifyBlock is tried on.
Responses ==
    [jsonrpc : {"2.0", "1.0"}, id : {1, 2},
     missing : {{}, {"result"}, {"number"}, {"timestamp"}, {"hash"}},
     result : [number : Quantities, timestamp : {<<"0", "x", "5", "f", "5">>, <<"0">>},
               hash : Hashes]]

VerifyInit ==
    /\ ConstructedFrom({ExtraRpcs})
    /\ latencies = <<>> /\ fastestRpcUrl = NoFound /\ logCall = NoLog
    /\ config = NoConfig
    /\ block \in [done : {FALSE}, data : Responses, verdict : {FALSE}]

\* RPCService._verifyBlock(data)
VerifyBlock ==
    /\ ~block.done
    /\ block' = [block EXCEPT !.done = TRUE, !.verdict = _verifyBlock(block.data)]
    /\ UNCHANGED <<latencies, fastestRpcUrl, logCall, config>>
    /\ UNCHANGED handlerVars
    /\ UNCHANGED cycleVars
    /\ UNCHANGED invokeVars
    /\ UNCHANGED readVars
    /\ UNCHANGED auxVars

VerifyNext == VerifyBlock

VerifySpec == VerifyInit /\ [][VerifyNext]_vars

\* ------------------------------------------------------------ autoStorage
\* The keys of a table in the store, which handlers of network 1 and of
\* network 2 write to under one key of the environment.
StoredKeys == {<<"1", "A">>, <<"1", "B">>, <<"2", "D">>}

\* StorageService.getLatencies(env, networkId) and getRefreshLatencies(env):
\* a table over StoredKeys and a counter.
Stored ==
    {<<TRUE, t, n>> : t \in {tt \in Tables : \A i \in 1..Len(tt) : tt[i].key \in StoredKeys},
                      n \in 0..MaxCycles}

\* --------------------------------------- a third call, overlapping the second
\* The caller calls testRpcPerformance, at most once more than in ConcSpec.
OverlapBegin ==
    /\ begun < MaxCalls + 1
    /\ StartCycle
    /\ begun' = begun + 1
    /\ UNCHANGED <<ensure, outer, parked, seen, held>>

\* A handler whose every cycle is to be a refresh.
OverlapInit == ConcInit /\ _cacheRefreshCycles = 1

\* The first call is awaited; the calls after it are not.
OverlapSwitch == begun > 1 /\ Switch

\* An endpoint answers with a block or the transport fails.
OverlapSettle(i, net) ==
    /\ net.how # "timeout" /\ (net.how = "response" => net.body = "good")
    /\ Settle(i, net)

OverlapNext ==
    \/ OverlapBegin
    \/ OverlapSwitch
    \/ \E i \in 1..Len(requests), net \in NetOutcomes : OverlapSettle(i, net)
    \/ RaceResumes
    \/ AllSettledResumes
    \/ Select
    \/ Returned

OverlapSpec == OverlapInit /\ [][OverlapNext]_vars

\* A caller that awaits each call and reads the table twice, at any points.
AgainNext ==
    \/ ConcBegin
    \/ ReadLatencies
    \/ ReadAgain
    \/ \E i \in 1..Len(requests), net \in NetOutcomes : OverlapSettle(i, net)
    \/ RaceResumes
    \/ AllSettledResumes
    \/ Select
    \/ Returned

AgainInit == ConcInit /\ _cacheRefreshCycles = MaxCycles

AgainSpec == AgainInit /\ [][AgainNext]_vars

\* ------------------------------------------- construction with networkRpcs
LOCAL_HOST == <<"http://127.0.0.1:8545">>

\* The template `${LOCAL_HOST_2}` of _initialize.
LOCAL_HOST_2 == <<"LOCAL_HOST_2">>

\* _initialize, the branch for config.networkRpcs: network is the list the
\* constructor took from the built-in table (empty when the table has none).
_initialize(network, networkId, cfg) ==
    IF cfg.set /\ Len(cfg.networkRpcs) > 0
    THEN LET base == IF networkId \in {"31337", "1337"}
                     THEN <<LOCAL_HOST, LOCAL_HOST_2>> ELSE network
         IN  IF Len(base) > 0 THEN base \o cfg.networkRpcs ELSE cfg.networkRpcs
    ELSE network

\* _updateConfig, the branch for config.networkRpcs (an array, empty or not,
\* is taken as true).
_updateConfig(network, networkId, cfg) ==
    IF cfg.set
    THEN (IF networkId = "31337" THEN <<LOCAL_HOST>> ELSE network) \o cfg.networkRpcs
    ELSE network

\* this._networkRpcs when the constructor returns.
ConstructedNetworkRpcs(builtin, networkId, cfg) ==
    _updateConfig(_initialize(builtin, networkId, cfg), networkId, cfg)

\* The values of config.networkRpcs: unset, empty, one endpoint.
Configs ==
    {NoConfig, [set |-> TRUE, networkRpcs |-> <<>>], [set |-> TRUE, networkRpcs |-> << <<"C">> >>]}

\* new RPCHandler(config): the constructor takes the built-in list of the
\* network and calls _initialize.
ConfigInit ==
    /\ \E cfg \in Configs :
          /\ ConstructedFrom({ConstructedNetworkRpcs(ExtraRpcs, NetworkId, cfg)})
          /\ config = cfg
    /\ _proxySettings.retryCount = 0
    /\ latencies = <<>> /\ fastestRpcUrl = NoFound /\ logCall = NoLog /\ block = NoBlock

\* The first testRpcPerformance call after construction.
ConfigBegin == begun = 0 /\ ConcBegin

ConfigNext ==
    \/ ConfigBegin
    \/ \E i \in 1..Len(requests), net \in NetOutcomes : Settle(i, net)
    \/ RaceResumes
    \/ AllSettledResumes
    \/ Select
    \/ Returned

ConfigSpec == ConfigInit /\ [][ConfigNext]_vars

\* new RPCHandler(config) with config.autoStorage.
LoadInit ==
    /\ ConstructedLoaded({ExtraRpcs}, {FALSE}, Stored)
    /\ _cacheRefreshCycles = MaxCycles
    /\ _proxySettings.retryCount = 1
    /\ latencies = <<>> /\ fastestRpcUrl = NoFound /\ logCall = NoLog /\ block = NoBlock
    /\ config = NoConfig

\* A request to a URL that is a whole key of the table reaches no endpoint.
LoadSettle(i, net) ==
    /\ i \in 1..Len(requests)
    /\ Len(requests[i].rpcUrl) > 1 => net.how = "error"
    /\ Settle(i, net)

LoadNext ==
    \/ ConcBegin
    \/ \E i \in 1..Len(requests), net \in NetOutcomes : LoadSettle(i, net)
    \/ RaceResumes
    \/ AllSettledResumes
    \/ Select
    \/ Returned
    \/ InvokeBound
    \/ \E o \in CallOutcomes : PrimarySettles(o)
    \/ \E o \in CallOutcomes : CandidateSettles(o)
    \/ DelayElapses
    \/ InvokeReturned

\* A handler that loads its table from the store, and a client that calls
\* testRpcPerformance and methods of the provider, one call at a time.
LoadSpec == LoadInit /\ [][LoadNext]_vars

\* ------------------------------------------------------------------ claims
\* latencies[key]: the duration recorded under key k, 0 for undefined.
DurationOf(lat, k) ==
    IF HasKey(lat, k) THEN lat[CHOOSE i \in 1..Len(lat) : lat[i].key = k].dur ELSE 0

\* The table as a mapping: its (key, duration) pairs without their order.
TableMap(lat) == {<<lat[i].key, lat[i].dur>> : i \in 1..Len(lat)}

\* What the requests of the cycle measured: key and duration of each success.
Measured ==
    {<<LatencyKey(NetworkId, requests[i].rpcUrl), requests[i].duration>> :
        i \in {j \in 1..Len(requests) : requests[j].success}}

AllSettled == \A i \in 1..Len(requests) : requests[i].settled

\* A step taken while the probe is under way leaves every settled request as
\* it is.
SettledKept ==
    pc \in {"race", "allSettled"} =>
        \A j \in 1..Len(requests) : requests[j].settled => (requests')[j] = requests[j]

Registered == {_networkRpcs[i] : i \in 1..Len(_networkRpcs)}

ProbedList == [i \in 1..Len(requests) |-> requests[i].rpcUrl]

\* The request i of the cycle was answered, within the timeout, by a body
\* that passes the validator.
ValidatedResponse(i) ==
    requests[i].how = "response" /\ _verifyBlock(BodyOf(requests[i].body))

\* The URLs that have an entry under the handler's network in the table.
ScopeUrls(lat) ==
    {SplitSecond(lat[i].key) :
        i \in {j \in 1..Len(lat) : StartsWithNetworkId(lat[j].key, NetworkId)}}

InvokeDone == ipc = "done"

\* C1: when the first attempt, on the bound provider, completes without
\* throwing, the call resolves with exactly the value of that attempt and no
\* other endpoint is called, whatever the value (0, null, false and "" too).
C1_PrimaryResultReturned ==
    (ipc # "idle" /\ probe.primary.kind = "return") =>
        /\ InvokeDone
        /\ probe.outcome.kind = "return"
        /\ probe.outcome.val = probe.primary.val
        /\ probe.outcome.by = 0
        /\ ~probe.snapshot
        /\ probe.nCalls = 0

\* C2: once a candidate of the failover returns a result, the call resolves
\* with that result: no later candidate of the pass and no later pass is
\* called.
C2_FirstSuccessEndsFailover ==
    probe.firstSuccess # 0 =>
        /\ InvokeDone
        /\ probe.outcome.kind = "return"
        /\ probe.outcome.by = probe.firstSuccess
        /\ probe.afterSuccess = 0

\* C3: when the first attempt throws, the snapshot is not empty and every
\* candidate call of every pass throws, the call rejects with the last
\* error thrown; it does not resolve.
C3_ExhaustionThrowsLastError ==
    (InvokeDone /\ probe.primary.kind = "throw" /\ probe.snapshot
        /\ Len(sortedLatencies) > 0 /\ probe.allThrew) =>
        /\ probe.outcome.kind = "throw"
        /\ probe.outcome.err = probe.lastError

\* C4: when the first attempt throws and every candidate call throws, each
\* entry of the snapshot has been called retryCount times when the call
\* rejects.
C4_RetryCountFullPasses ==
    (InvokeDone /\ probe.primary.kind = "throw" /\ probe.snapshot
        /\ Len(sortedLatencies) > 0 /\ probe.allThrew
        /\ probe.outcome.kind = "throw") =>
        \A j \in 1..Len(sortedLatencies) : probe.attempts[j] = _proxySettings.retryCount

\* C5: when the first attempt fails and the snapshot taken then is empty, the
\* call rejects at once at the "No RPCs available" check: no candidate is
\* called, no pass of the retry loop starts and no delay is awaited.
C5_EmptySnapshotRejectsAtOnce ==
    (probe.snapshot /\ Len(sortedLatencies) = 0) =>
        /\ InvokeDone
        /\ probe.outcome.kind = "throw"
        /\ probe.outcome.site = "NO_RPCS_AVAILABLE"
        /\ probe.nCalls = 0
        /\ probe.passes = 0
        /\ probe.delays = 0

C5_Witness ==
    /\ InvokeDone
    /\ probe.primary.kind = "throw"
    /\ probe.snapshot /\ Len(sortedLatencies) = 0
    /\ probe.outcome.site = "NO_RPCS_AVAILABLE"

\* C6: after a probe cycle the table holds an entry for an endpoint under
\* the handler's network if and only if that endpoint answered in this cycle,
\* within the timeout, with a response that passes the validator.
C6_EntryIffValidatedThisCycle ==
    pc = "cycleDone" =>
        \A u \in Registered :
            HasKey(_latencies, LatencyKey(NetworkId, u))
                <=> \E i \in 1..Len(requests) : requests[i].rpcUrl = u /\ ValidatedResponse(i)

\* C7: an endpoint that answers within the timeout with a response that fails
\* the validator gets no latency written in that cycle.
C7_InvalidResponseNotRecorded ==
    pc = "cycleDone" =>
        \A i \in 1..Len(requests) :
            (requests[i].how = "response" /\ ~_verifyBlock(BodyOf(requests[i].body)))
                => LatencyKey(NetworkId, requests[i].rpcUrl) \notin written

\* C8: a cycle is STALE exactly when, at its start, the table holds at most
\* one entry of the handler's network or the counter has reached
\* cacheRefreshCycles; a STALE cycle probes the registered list and sets the
\* counter to 0 before it probes.
C8_StaleDecision ==
    pc # "idle" =>
        /\ cycle.stale <=> (cycle.count <= 1 \/ cycle.counter >= _cacheRefreshCycles)
        /\ cycle.stale => (cycle.probed = _networkRpcs /\ ProbedList = _networkRpcs /\ cycle.reset)
        /\ (pc = "race" /\ cycle.stale) => _refreshLatencies = 0

C8_Witness ==
    /\ pc = "race" /\ cycle.stale
    /\ cycle.count > 1 /\ cycle.counter >= _cacheRefreshCycles
    /\ Len(requests) = Len(_networkRpcs)

C10_AfterNFreshStarts ==
    (pc # "idle" /\ cycle.freshRun >= _cacheRefreshCycles) =>
        /\ cycle.stale
        /\ ProbedList = _networkRpcs
        /\ cycle.reset

\* C10 as amended: counting the cycles from, and with, the last one that
\* reset the counter, the cycle after the cacheRefreshCycles-th is STALE: it
\* probes the registered list and resets the counter.
C10_AfterNSinceReset ==
    (pc # "idle" /\ cycle.run = _cacheRefreshCycles) =>
        /\ cycle.stale
        /\ ProbedList = _networkRpcs
        /\ cycle.reset

C10_Witness ==
    /\ pc = "race" /\ _cacheRefreshCycles >= 2
    /\ cycle.run = _cacheRefreshCycles /\ cycle.count > 1
    /\ cycle.stale /\ _refreshLatencies = 0

\* C11: the step that completes a probe cycle, STALE or FRESH, adds exactly 1
\* to the counter; the counter changes in no other step but the start of a
\* STALE cycle, which sets it to 0, and so never decreases otherwise.
C11_CounterSteps ==
    [][ /\ (pc = "allSettled" /\ pc' = "cycleDone") => _refreshLatencies' = _refreshLatencies + 1
        /\ (_refreshLatencies' # _refreshLatencies) =>
               \/ pc = "allSettled" /\ pc' = "cycleDone"
               \/ pc = "idle" /\ pc' = "race" /\ cycle'.stale /\ _refreshLatencies' = 0 ]_vars

C11_Witness ==
    /\ pc = "cycleDone" /\ ~cycle.stale
    /\ cycle.counter >= 1 /\ _refreshLatencies = cycle.counter + 1

\* C12: with autoStorage off, no testRpcPerformance call hands anything to the
\* StorageService.
C12_NoStorageWriteWhenDisabled ==
    ~_autoStorage => ~storage.written

\* C13: a cycle whose candidate list is empty ends, with the table as it was,
\* and the testRpcPerformance call that ran it then fails.
C13_EmptyCandidateSetFails ==
    (pc = "race" /\ Len(requests) = 0) ~>
        (pc = "returned" /\ thrown # "none" /\ _latencies = cycle.before)

\* C14: the probe never throws, whichever requests fail or time out; when all
\* of them fail it returns normally, having written no measurement and left
\* the table as it was.
C14_ProbeNeverRaises ==
    /\ thrown # "probe"
    /\ (pc = "cycleDone" /\ \A i \in 1..Len(requests) : ~requests[i].success) =>
           (written = {} /\ _latencies = cycle.before)
    /\ (pc \in {"race", "allSettled"} /\ fastest # 0) => requests[fastest].status = "fulfilled"

C14_Witness ==
    /\ pc = "cycleDone" /\ Len(requests) = 2
    /\ requests[1].how = "timeout" /\ requests[2].how = "error"
    /\ Len(cycle.before) = 2 /\ _latencies = cycle.before

\* C15: the probe over a candidate list that is not empty returns only when
\* every request has settled, and it does return once every request has; a
\* settled request keeps its outcome whatever the other requests do, and
\* every request that succeeded has its own duration in the table when the
\* probe returns.
C15_ReturnsWhenAllSettled ==
    /\ [](pc = "cycleDone" =>
            /\ AllSettled
            /\ \A i \in 1..Len(requests) : requests[i].success =>
                   DurationOf(_latencies, LatencyKey(NetworkId, requests[i].rpcUrl))
                       = requests[i].duration)
    /\ [][SettledKept]_vars
    /\ ((pc \in {"race", "allSettled"} /\ Len(requests) > 0 /\ AllSettled) ~> pc = "cycleDone")

C15_Witness ==
    /\ pc = "cycleDone" /\ Len(requests) = 2
    /\ requests[1].how = "timeout" /\ requests[2].success
    /\ fastest = 1 /\ LatencyKey(NetworkId, requests[2].rpcUrl) \in written

\* C16: when the cycle completes, the table, as a mapping from keys to
\* durations, is fixed by the table at the start, the candidate list and the
\* outcome of each request: the entries measured in this cycle, and the
\* earlier entries of the other keys. The order in which the requests
\* settled has no part in it.
C16_TableIndependentOfOrder ==
    pc = "cycleDone" =>
        TableMap(_latencies) =
            Measured \union {e \in TableMap(cycle.before) : \A m \in Measured : m[1] # e[1]}

C16_Witness ==
    /\ pc = "cycleDone" /\ Len(requests) = 2 /\ Len(cycle.before) = 0
    /\ requests[1].success /\ requests[2].success /\ fastest = 2
    /\ requests[1].duration # requests[2].duration

\* The entries of the handler's network in a table, and how the direct call
\* of findFastestRpc ended.
ScopeEntries(lat) == {i \in 1..Len(lat) : StartsWithNetworkId(lat[i].key, NetworkId)}

Called == fastestRpcUrl # NoFound

\* The order of the endpoint strings: "A" < "B" < "C" < "D".
UrlRank(u) == CHOOSE n \in 1..4 : <<"A", "B", "C", "D">>[n] = u[1]

\* C17: on a table with an entry of the network, findFastestRpc returns the
\* endpoint of an entry of that network whose duration is at most that of
\* every entry of the network.
C17_FastestOfScope ==
    (Called /\ ScopeEntries(latencies) # {}) =>
        /\ fastestRpcUrl.kind = "url"
        /\ \E i \in ScopeEntries(latencies) :
               /\ SplitSecond(latencies[i].key) = fastestRpcUrl.url
               /\ \A j \in ScopeEntries(latencies) : latencies[i].dur <= latencies[j].dur

C17_Witness ==
    /\ Called /\ Len(latencies) = 3
    /\ ~StartsWithNetworkId(latencies[1].key, NetworkId) /\ latencies[1].dur = 1
    /\ SplitSecond(latencies[1].key) = <<"D">>
    /\ \A j \in ScopeEntries(latencies) : latencies[j].dur = 2
    /\ fastestRpcUrl.kind = "url"

\* C18: when entries of the network tie for the least duration, findFastestRpc
\* returns the least of their endpoint strings.
C18_TieLexicographic ==
    (Called /\ ScopeEntries(latencies) # {}) =>
        /\ fastestRpcUrl.kind = "url"
        /\ \A j \in ScopeEntries(latencies) :
               (\A k \in ScopeEntries(latencies) : latencies[j].dur <= latencies[k].dur)
                   => UrlRank(fastestRpcUrl.url) <= UrlRank(SplitSecond(latencies[j].key))

\* C19: on a table without an entry of the network, empty or holding other
\* networks only, findFastestRpc yields no endpoint: it throws or returns
\* null, and testRpcPerformance throws on either.
C19_NoEntryNoEndpoint ==
    (Called /\ ScopeEntries(latencies) = {}) =>
        /\ fastestRpcUrl.kind \in {"throw", "null"}
        /\ thrown # "none"

C19_Witness ==
    /\ Called /\ Len(latencies) = 2 /\ ScopeEntries(latencies) = {}
    /\ fastestRpcUrl.kind = "null" /\ thrown = "Failed to find fastest RPC"

LocalNetworks == {"31337", "1337"}

C22_CyclesSerialized == ~(InCycle(pc) /\ InCycle(parked.pc))

\* C23: a getLatencies call made while a probe is under way returns the
\* table as it was when the cycle started or as it is when the cycle has
\* completed; checked at the end of the only cycle started so far.
C23_ReadSeesWholeCycles ==
    (pc = "cycleDone" /\ begun = 1 /\ seen.read /\ seen.during) =>
        seen.table \in {cycle.before, _latencies}

\* C24: with proxySettings.disabled the provider the handler hands out is the
\* JsonRpcProvider itself: a call ends as the method of that provider ends,
\* with its value or with its error, no snapshot of the table is taken and no
\* other endpoint is called. With disabled false a call whose first attempt
\* throws or returns a falsy value takes the snapshot.
C24_DisabledIsPassthrough ==
    /\ _proxySettings.disabled =>
        /\ ~_provider.proxied
        /\ ipc # "idle" =>
            /\ ~probe.snapshot /\ probe.nCalls = 0 /\ sortedLatencies = <<>>
        /\ ipc = "done" =>
            /\ probe.outcome.kind = probe.primary.kind
            /\ probe.primary.kind = "return" => probe.outcome.val = probe.primary.val
            /\ probe.primary.kind = "throw" => probe.outcome.err = 0
    /\ ~_proxySettings.disabled =>
        /\ _provider.set => _provider.proxied
        /\ (ipc = "done" /\ ~(probe.primary.kind = "return" /\ Truthy(probe.primary.val))) =>
                probe.snapshot

C24_Witness ==
    /\ _proxySettings.disabled /\ ipc = "done"
    /\ probe.primary.kind = "throw" /\ probe.outcome.kind = "throw"
    /\ Len(_latencies) > 1

\* A step of a call through the proxy leaves the table, the counter, the
\* candidate list and the provider the handler holds as they are.
InvokeFrame ==
    (ipc # "idle" \/ ipc' # "idle") =>
        UNCHANGED <<_latencies, _refreshLatencies, _runtimeRpcs, _provider>>

\* C25: a call through the proxy, whether it ends on the first attempt, on an
\* entry of the snapshot or by throwing, changes none of the latency table,
\* the refresh counter, runtimeRpcs and the provider the handler holds.
C25_InvokeLeavesHandler == [][InvokeFrame]_vars

C25_Witness ==
    /\ ipc = "done" /\ probe.outcome.kind = "return" /\ probe.firstSuccess > 0
    /\ Len(sortedLatencies) > 1 /\ _provider.url = target

\* C26: no step removes an endpoint from the registered list of the network,
\* or changes that list at all: an endpoint whose probe failed leaves
\* runtimeRpcs only.
C26_RegisteredListKept == [][_networkRpcs' = _networkRpcs]_vars

C26_Witness ==
    /\ pc = "cycleDone"
    /\ \E i \in 1..Len(requests) : ~requests[i].success
    /\ Len(_runtimeRpcs) < Len(_networkRpcs)

\* C27: in one call of a method of the provider getFastestRpcProvider
\* returned, the calls made on providers of snapshot entries number at most
\* retryCount times the length of the snapshot, and no probe cycle starts.
C27_CandidateCallsBounded ==
    outer.stage # "none" =>
        /\ pc = "idle"
        /\ outer.innerCalls + probe.nCalls <= _proxySettings.retryCount * Len(_latencies)

\* C28: with entries of another network in the table, the list a cycle that
\* does not refresh probes holds only URLs that have an entry under the
\* handler's network, and so does the snapshot of a call through the proxy.
C28_OnlyOwnScopeEndpoints ==
    /\ (InCycle(pc) /\ ~cycle.stale) =>
            \A i \in 1..Len(requests) : requests[i].rpcUrl \in ScopeUrls(cycle.before)
    /\ (ipc # "idle" /\ probe.snapshot) =>
            \A i \in 1..Len(sortedLatencies) :
                StartsWithNetworkId(sortedLatencies[i].key, NetworkId)

\* The tiers from the least to the most verbose.
Verbosity(t) ==
    CASE t = "fatal" -> 0 [] t = "error" -> 1 [] t = "ok" -> 2 [] t = "info" -> 3
      [] t = "debug" -> 4 [] t = "verbose" -> 5

ValidBlock(data) ==
    /\ data.missing = {}
    /\ data.jsonrpc = "2.0" /\ data.id = 1
    /\ ParseInt16(data.result.number) > 0
    /\ ParseInt16(data.result.timestamp) > 0
    /\ Len(data.result.hash) = 66
    /\ data.result.hash[1] = "0" /\ data.result.hash[2] = "x"
    /\ \A i \in 3..66 : data.result.hash[i] \in HexDigits

\* C30: _verifyBlock returns true exactly for the responses with jsonrpc
\* "2.0", id 1, a number and a timestamp that parse in base 16 to more than
\* zero and a hash of 66 characters, 0x and 64 hexadecimal digits; false for
\* every other response, one with a missing property included.
C30_VerifyBlockExact == block.done => (block.verdict <=> ValidBlock(block.data))

\* A step of an accessor: only the accessors write seen.
AccessorFrame == seen' # seen => UNCHANGED <<handlerVars, cycleVars, invokeVars>>

\* C31: two reads of the table with no probe under way at either and none
\* started between them return the same contents, those of the handler's
\* table, and a step of getLatencies, getRuntimeRpcs, getRefreshLatencies or
\* getNetworkRpcs changes no state of the handler.
C31_ReadsIdempotent ==
    [][/\ AccessorFrame
       /\ (seen'.again /\ ~seen.again /\ seen'.quiet) =>
            seen'.table2 = seen'.table /\ seen'.table2 = _latencies']_vars

C31_Witness ==
    /\ seen.again /\ seen.quiet /\ Len(seen.table) > 1
    /\ seen.fields[2] > 0

\* C32: the snapshot the retry loop works on is the handler's table as it is
\* when the first attempt fails, sorted, also for a provider the caller kept
\* while later cycles rewrote the table.
C32_SnapshotAtFailure ==
    (ipc # "idle" /\ probe.snapshot) => sortedLatencies = SortedEntries(_latencies)

C32_Witness ==
    /\ held.set /\ target = held.url
    /\ ipc # "idle" /\ probe.snapshot
    /\ SortedEntries(held.table) # sortedLatencies
    /\ Len(sortedLatencies) > 0 /\ Len(held.table) > 0

\* C33: the snapshot is in non-decreasing order of duration; while the retry
\* loop runs, the entries up to the current one have been called once in
\* every pass so far and the later ones once in every earlier pass; and no
\* call of an earlier pass returned a result.
C33_PassesInOrder ==
    (ipc \in {"candidate", "delay"}) =>
        /\ \A i, j \in 1..Len(sortedLatencies) :
               i < j => sortedLatencies[i].dur <= sortedLatencies[j].dur
        /\ \A j \in 1..Len(sortedLatencies) :
               probe.attempts[j] = IF j <= idx THEN probe.passes ELSE probe.passes - 1
        /\ probe.nCalls = (probe.passes - 1) * Len(sortedLatencies) + idx
        /\ probe.firstSuccess # 0 =>
               probe.firstSuccess > (probe.passes - 1) * Len(sortedLatencies)

C33_Witness ==
    /\ ipc = "candidate" /\ probe.passes = 2 /\ idx = 2
    /\ sortedLatencies[1].dur < sortedLatencies[2].dur
    /\ sortedLatencies # _latencies

\* The entry of key k in a table: whether it is there, and its duration.
EntryOf(lat, k) == <<HasKey(lat, k), DurationOf(lat, k)>>

\* C34: a step changes the entry of a key only while a probe is under way and
\* only for the key of an endpoint that succeeded in it, to the duration that
\* request measured; every other entry, of an endpoint that failed, timed
\* out or was not probed, stays as it is.
C34_OnlySucceededEntriesChange ==
    [][\A k \in {(_latencies')[i].key : i \in 1..Len(_latencies')}
              \union {_latencies[i].key : i \in 1..Len(_latencies)} :
          EntryOf(_latencies', k) # EntryOf(_latencies, k) =>
              /\ pc \in {"race", "allSettled"}
              /\ \E i \in 1..Len(requests) :
                    /\ requests[i].success
                    /\ LatencyKey(NetworkId, requests[i].rpcUrl) = k
                    /\ EntryOf(_latencies', k) = <<TRUE, requests[i].duration>>]_vars

C34_Witness ==
    /\ pc = "cycleDone" /\ ~cycle.stale /\ Len(requests) > 1
    /\ \E i, j \in 1..Len(requests) :
          /\ requests[i].success /\ ~requests[j].success
          /\ DurationOf(cycle.before, LatencyKey(NetworkId, requests[i].rpcUrl))
                # requests[i].duration
          /\ EntryOf(_latencies, LatencyKey(NetworkId, requests[j].rpcUrl))
                = EntryOf(cycle.before, LatencyKey(NetworkId, requests[j].rpcUrl))
          /\ HasKey(cycle.before, LatencyKey(NetworkId, requests[j].rpcUrl))
    /\ \E e \in 1..Len(_latencies) :
          \A i \in 1..Len(requests) : LatencyKey(NetworkId, requests[i].rpcUrl) # _latencies[e].key

\* How often url occurs in a list.
Occurrences(list, url) == Cardinality({i \in 1..Len(list) : list[i] = url})

\* C35: after construction with config.networkRpcs the registered list is the
\* built-in list followed by the configured endpoints, each configured
\* endpoint once, and a STALE cycle sends one request to each of them.
C35_ConfiguredOnce ==
    config.set =>
        /\ _networkRpcs = ExtraRpcs \o config.networkRpcs
        /\ \A i \in 1..Len(config.networkRpcs) :
              /\ Occurrences(_networkRpcs, config.networkRpcs[i]) = 1
              /\ (pc = "race" /\ cycle.stale) =>
                    Occurrences(ProbedList, config.networkRpcs[i]) = 1

C37_ReturnsOnlyServedValue ==
    (InvokeDone /\ probe.outcome.kind = "return") =>
        /\ probe.outcome.by >= 0
        /\ probe.outcome.val # Null.val

\* C38: when testRpcPerformance returns a provider, the provider is connected
\* to an endpoint whose request succeeded in the cycle the call ran.
C38_BoundToAnsweringEndpoint ==
    (pc = "returned" /\ thrown = "none") =>
        \E i \in 1..Len(requests) :
            requests[i].success /\ requests[i].rpcUrl = _provider.url

\* C39: with every call awaited before the next, the counter is 0 until the
\* first cycle starts, and at least 1 and at most cacheRefreshCycles whenever
\* a cycle has completed and no other is under way.
C39_CounterRange ==
    /\ sinceReset = 0 => _refreshLatencies = 0
    /\ (pc \in {"cycleDone", "returned"} \/ (pc = "idle" /\ sinceReset > 0)) =>
           (1 <= _refreshLatencies /\ _refreshLatencies <= _cacheRefreshCycles)

C39_Witness ==
    /\ pc = "cycleDone" /\ ~cycle.stale
    /\ _cacheRefreshCycles = 2 /\ _refreshLatencies = _cacheRefreshCycles
    /\ cycle.run >= 1

\* C40: no step of a testRpcPerformance call but the selection that succeeds
\* changes the provider the handler holds: when the selection fails, the
\* provider, and with it what getProvider does, is as it was before the call.
C40_FailedSelectionKeepsBinding ==
    [][/\ ((pc # "idle" \/ pc' # "idle") /\ ~(pc = "cycleDone" /\ thrown' = "none")) =>
             _provider' = _provider
       /\ (pc = "cycleDone" /\ thrown' # "none") =>
             getProvider(_provider') = getProvider(_provider)]_vars

C40_Witness ==
    /\ pc = "returned" /\ thrown = "No latencies found"
    /\ Len(requests) = 2 /\ getProvider(_provider).kind = "throw"

\* A call whose selection fails is a call of a handler that never bound a
\* provider: an entry of the network, once written, stays in the table.
FailsOnlyUnbound == (pc = "returned" /\ thrown # "none") => ~_provider.set

====
